---- MODULE Spec2Model ----
(***************************************************************************)
(* Model of the retrieval engine of exporter.py: the rate-aware request    *)
(* executor get_data, the cursor traversal get_at_cursor / paginated_get   *)
(* and the page-number traversal get_file_list.  The program is            *)
(* sequential; pc is the position of its single thread.  The Slack server  *)
(* is the environment: every HTTP request draws its response from a small  *)
(* set.  Sleeps are recorded, not timed.                                   *)
(***************************************************************************)
EXTENDS Integers, Sequences, FiniteSets, TLC

\* ------------------------------------------------------------------ bounds
\* Most 429 responses the server gives to one get_data call.
MaxAttempt == 5
\* Most pages the server serves in one traversal.
MaxPages == 3
\* Most threads channel_replies is asked to fetch.
MaxThreads == 2
\* Most records in a message list handed to parse_channel_history.
MaxMsgs == 2
\* Most files attached to one message.
MaxFiles == 2

\* ------------------------------------------------------- values and inputs
\* Python's None (an absent cursor, an absent combine key).
None == "None"
\* r.headers has no "Retry-After" entry.
NoHeader == -1

\* Retry-After values the server sends (seconds).
RetryAfterValues == {30}
\* Statuses the server answers with.
StatusCodes == {200, 429, 500}
\* Values of response_metadata.next_cursor; None stands for an absent key.
ContinuationCursors == {"c1", "c2"}
TerminalCursors == {None, "", "  "}
\* Item lists under the combine key.
ItemLists == {<< >>, <<"m2", "m1">>}
\* File lists of a files.list page.
FileLists == {<<"f1">>, <<"f2", "f1">>}

\* The decoded body r.json() of a response.  ok is "true", "false" or
\* "absent" (no "ok" key); has_key tells whether the combine key is present;
\* pages is paging.pages, 0 when the body has no paging object.  A body that
\* is not ok carries an error and no payload.
CursorBodies ==
  { b \in [ok : {"true", "false", "absent"}, has_key : BOOLEAN,
           items : ItemLists, next_cursor : ContinuationCursors \cup TerminalCursors,
           pages : {0}, files : {<< >>}] :
      /\ ~b.has_key => b.items = << >>
      /\ b.ok # "true" => b.items = << >> /\ b.next_cursor = None
      /\ b.ok = "false" => ~b.has_key }

FileBodies ==
  { b \in [ok : {"true", "false"}, has_key : {FALSE},
           items : {<< >>}, next_cursor : {None},
           pages : 0..MaxPages, files : FileLists \cup {<< >>}] :
      /\ b.pages = 0 <=> b.files = << >>
      /\ b.ok = "false" => b.pages = 0 }

\* The body of a response that is not a 200.
ErrorBody ==
  [ok |-> "false", has_key |-> FALSE, items |-> << >>, next_cursor |-> None,
   pages |-> 0, files |-> << >>]

NoResponse == [status |-> 0, retry_after |-> NoHeader, body |-> ErrorBody]

\* The list [] that get_at_cursor returns in place of a body (exporter.py:127).
EmptyList == [kind |-> "list", body |-> ErrorBody]

Dict(b) == [kind |-> "dict", body |-> b]

\* ------------------------------------------------------- get_data, pure parts
\* Faulty variant of WhileCondition: the request is made once and never retried.
WhileCondition_NoRetry(s) == FALSE

\* exporter.py:58, the loop condition.
WhileCondition(s) == ~s

\* Faulty variant of IsRateLimited: every status but 200 is retried.
IsRateLimited_Not200(status) == status # 200

\* exporter.py:72, the status that is retried.
IsRateLimited(status) == status = 429

\* exporter.py:79: the Retry-After header, else the computed delay.
RetryAfter(resp, b, a) ==
  IF resp.retry_after # NoHeader THEN resp.retry_after ELSE b * (2 ^ (a - 1))

\* Faulty variant of SleepTime: the buffer is left out.
SleepTime_NoBuffer(retry_after, additional) == retry_after

\* exporter.py:80.
SleepTime(retry_after, additional) == retry_after + additional

\* Faulty variant of NextBaseSleep: the base is reset once the cap is reached.
NextBaseSleep_Reset(b, a) == IF b * (2 ^ a) < 60 THEN b * 2 ELSE 1

\* exporter.py:85-86.
NextBaseSleep(b, a) == IF b * (2 ^ a) < 60 THEN b * 2 ELSE b

\* Faulty variant of ReturnSleep: the pacing sleep precedes every return.
ReturnSleep_Always(a) == 1

\* Faulty variant of InitialBackoff: the base delay is kept across calls, so a
\* call that follows a rate-limited one starts from a doubled base.
InitialBackoff_Carried(earlier) ==
  [attempt |-> 0, base_sleep |-> IF earlier THEN 2 ELSE 1]

\* exporter.py:54-56: the locals every get_data call starts with, whatever
\* earlier calls met (earlier: one of them was answered 429).
InitialBackoff(earlier) == [attempt |-> 0, base_sleep |-> 1]

\* exporter.py:75-76: seconds slept before a response is returned.
ReturnSleep(a) == IF a > 1 THEN 1 ELSE 0

\* exporter.py:14 and 565-566: the value of ADDITIONAL_SLEEP_TIME after main
\* has read the --gentle flag.
AdditionalSleepTime(g, current) == IF g THEN 10 ELSE current

\* --------------------------------------------------- pagination, pure parts
\* str.strip() on the cursor strings of the model.
Strip(s) == IF s \in {"", " ", "  "} THEN "" ELSE s

\* Faulty variant of NormalizeCursor: the cursor is not stripped before the test.
NormalizeCursor_NoStrip(c) == IF c = None \/ c = "" THEN None ELSE c

\* exporter.py:117-121.
NormalizeCursor(c) == IF c = None \/ Strip(c) = "" THEN None ELSE c

\* Faulty variant of GetAtCursorResult: a body that is not ok is reported and handed
\* back as (None, []) instead of ending the program.
GetAtCursorResult_NoExit(resp) ==
  IF resp.status # 200
    THEN [exit |-> TRUE, printed |-> <<"ERROR">>, next_cursor |-> None, data |-> EmptyList]
  ELSE IF resp.body.ok = "absent"
    THEN [exit |-> FALSE, printed |-> <<"Something went wrong">>,
          next_cursor |-> None, data |-> EmptyList]
  ELSE IF resp.body.ok = "false"
    THEN [exit |-> FALSE, printed |-> <<"I encountered an error">>,
          next_cursor |-> None, data |-> EmptyList]
  ELSE [exit |-> FALSE, printed |-> << >>,
        next_cursor |-> NormalizeCursor(resp.body.next_cursor), data |-> Dict(resp.body)]

\* exporter.py:100-127: what get_at_cursor does with the response of get_data.
GetAtCursorResult(resp) ==
  IF resp.status # 200
    THEN [exit |-> TRUE, printed |-> <<"ERROR">>, next_cursor |-> None, data |-> EmptyList]
  ELSE IF resp.body.ok = "absent"
    THEN [exit |-> FALSE, printed |-> <<"Something went wrong">>,
          next_cursor |-> None, data |-> EmptyList]
  ELSE IF resp.body.ok = "false"
    THEN [exit |-> TRUE, printed |-> <<"I encountered an error">>,
          next_cursor |-> None, data |-> EmptyList]
  ELSE [exit |-> FALSE, printed |-> << >>,
        next_cursor |-> NormalizeCursor(resp.body.next_cursor), data |-> Dict(resp.body)]

\* The keys of a decoded body, in order: what result.extend(data) appends
\* when combine_key is None.
DictKeys(b) ==
  (IF b.ok # "absent" THEN <<"ok">> ELSE << >>)
  \o (IF b.has_key THEN <<"messages">> ELSE << >>)
  \o (IF b.next_cursor # None THEN <<"response_metadata">> ELSE << >>)

\* Faulty variant of Combine: a missing combine key reads as an empty page.
Combine_GetDefault(d, ck) ==
  IF ck = None
    THEN [raised |-> "", new_items |-> IF d.kind = "dict" THEN DictKeys(d.body) ELSE << >>]
  ELSE IF d.kind = "list"
    THEN [raised |-> "TypeError", new_items |-> << >>]
  ELSE [raised |-> "", new_items |-> d.body.items]

\* exporter.py:141-147: new_items, or the exception the lookup raises.
Combine(d, ck) ==
  IF ck = None
    THEN [raised |-> "", new_items |-> IF d.kind = "dict" THEN DictKeys(d.body) ELSE << >>]
  ELSE IF d.kind = "list"
    THEN [raised |-> "TypeError", new_items |-> << >>]
  ELSE IF ~d.body.has_key
    THEN [raised |-> "KeyError", new_items |-> << >>]
  ELSE [raised |-> "", new_items |-> d.body.items]

\* Faulty variant of Extend: the page's items replace the accumulated ones.
Extend_Overwrite(res, new_items) == new_items

\* exporter.py:143: result.extend(new_items).
Extend(res, new_items) == res \o new_items

\* Faulty variant of PacingAfterPage: the sleep comes before the test for the last page.
PacingAfterPage_Always(nc) == <<1>>

\* exporter.py:149-154: the seconds paginated_get sleeps after a page, given
\* the cursor that page returned.
PacingAfterPage(nc) == IF nc = None THEN << >> ELSE <<1>>

\* Faulty variant of ThreadPacing: the sleep follows every thread.
ThreadPacing_Always(k, total_threads) == <<1>>

\* exporter.py:245-247: the seconds channel_replies sleeps after thread k of
\* total_threads.
ThreadPacing(k, total_threads) == IF k < total_threads THEN <<1>> ELSE << >>

\* exporter.py:226, 656: the thread timestamps channel_replies is given, in
\* the order of the channel history (here newest first).
TimestampLists == { [k \in 1..n |-> n + 1 - k] : n \in 0..MaxThreads }

\* Faulty variant of TotalPages: the page count of the first response is kept.
TotalPages_FirstOnly(tp, cp, reported) == IF cp = 1 THEN reported ELSE tp

\* exporter.py:186: get_file_list takes total_pages from the paging object of
\* every response; tp is the count it held, cp the page just fetched.
TotalPages(tp, cp, reported) == reported

\* exporter.py:108 and 115: get_at_cursor leaves by sys.exit(1).
LogicalFailureOutcome == [signal |-> "SystemExit", exit_code |-> 1]

\* exporter.py:145-147: paginated_get leaves by sys.exit(1) on a KeyError.
StructuralErrorOutcome == [signal |-> "SystemExit", exit_code |-> 1]

\* ------------------------------------------------------------------- state
VARIABLES
  pc,                     \* position of the program
  op,                     \* the traversal main runs
  gentle,                 \* a.gentle
  ADDITIONAL_SLEEP_TIME,  \* module global, exporter.py:14 and :566
  params,                 \* the request's query parameters (its cursor / page)
  attempt,                \* get_data locals
  base_sleep,
  success,
  r,
  combine_key,            \* paginated_get locals
  next_cursor,
  data,
  result,
  page,
  current_page,           \* get_file_list locals
  total_pages,
  ret,                    \* what the traversal returned / yielded to its caller
  signal,                 \* how the traversal ended: "", "return" or the exception
  exit_code,              \* the process exit status, -1 while it runs
  printed,                \* the diagnostics handed to handle_print / print
  wire,                   \* history: requests and responses of the current get_data call
  slept,                  \* history: rate-limit sleeps of the current get_data call
  return_sleep,           \* history: seconds slept at exporter.py:76 by the last call
  served,                 \* history: non-429 responses the server gave in this traversal
  ncalls,                 \* history: get_data calls made by the traversal
  pacing,                 \* history: inter-page sleeps of the traversal
  timestamps,             \* channel_replies: its argument and locals
  thread_index,           \*   i of exporter.py:230
  replies,
  thread_pacing,          \* history: inter-thread sleeps of channel_replies
  task,                   \* the parsing function main calls, with its arguments
  messages,               \* parse_channel_history locals
  check_thread,
  body,
  rendered,               \*   the records of messages the loop has done
  thread_no,              \* parse_replies: the threads its loop has done
  replies_body,           \*   its body
  blocks,                 \* history: the records rendered, the text of each before
                          \*   and after exporter.py:404-407, and what it added
  consumer,               \* the caller that iterates get_file_list: None or "save_files"
  file_index,             \* save_files: the files of the inventory it has done with
  sf_attempt,             \*   its locals attempt, download_success and total
  download_success,
  total,
  saved,                  \* what save() was given by save_channel and save_replies
  limited_before          \* history: an earlier get_data call of the run was answered 429

vars == <<pc, op, gentle, ADDITIONAL_SLEEP_TIME, params, attempt, base_sleep, success, r,
          combine_key, next_cursor, data, result, page, current_page, total_pages,
          ret, signal, exit_code, printed, wire, slept, return_sleep, served, ncalls,
          pacing, timestamps, thread_index, replies, thread_pacing,
          task, messages, check_thread, body, rendered, thread_no, replies_body,
          blocks, consumer, file_index, sf_attempt, download_success, total, saved,
          limited_before>>

gd_vars == <<attempt, base_sleep, success, r, wire, slept, return_sleep>>
pg_vars == <<combine_key, next_cursor, data, result, page>>
fl_vars == <<current_page, total_pages>>
out_vars == <<ret, signal, exit_code, printed>>
hist_vars == <<served, ncalls, pacing>>
cr_vars == <<timestamps, thread_index, replies, thread_pacing>>
ph_vars == <<task, messages, check_thread, body, rendered, thread_no, replies_body,
             blocks>>
sf_vars == <<consumer, file_index, sf_attempt, download_success, total>>

\* The variables of the retrieval before main starts a traversal.
Idle ==
  /\ op = None
  /\ gentle = FALSE
  /\ ADDITIONAL_SLEEP_TIME = 5
  /\ params = [cursor |-> None, page |-> 0, ts |-> None]
  /\ attempt = 0 /\ base_sleep = 1 /\ success = FALSE /\ r = NoResponse
  /\ combine_key = None /\ next_cursor = None /\ data = EmptyList
  /\ result = << >> /\ page = 1
  /\ current_page = 1 /\ total_pages = 1
  /\ ret = << >> /\ signal = "" /\ exit_code = -1 /\ printed = << >>
  /\ wire = << >> /\ slept = << >> /\ return_sleep = 0
  /\ served = << >> /\ ncalls = 0 /\ pacing = << >>
  /\ timestamps = << >> /\ thread_index = 0 /\ replies = << >> /\ thread_pacing = << >>
  /\ consumer = None /\ file_index = 0 /\ sf_attempt = 1 /\ download_success = FALSE
  /\ total = 0 /\ saved = << >> /\ limited_before = FALSE

\* The variables of the parsing functions before one is called.
ParseIdle ==
  /\ messages = << >> /\ check_thread = FALSE /\ body = << >> /\ rendered = 0
  /\ thread_no = 0 /\ replies_body = << >> /\ blocks = << >>

NoTask == [fn |-> None]

Init == pc = "main" /\ Idle /\ task = NoTask /\ ParseIdle

\* ------------------------------------------------------------- the server
\* The bodies the server may put in a 200 response to traversal o after n
\* pages: the page that reaches MaxPages ends the cursor chain.
Bodies(o, n) ==
  IF o = "get_file_list" THEN FileBodies
  ELSE { b \in CursorBodies :
           n + 1 >= MaxPages => b.next_cursor \notin ContinuationCursors }

\* The responses the server may give to the next request of a get_data call
\* that has made a requests: at most MaxAttempt of them are 429.
ServerResponses(o, n, a) ==
  [status : {200}, retry_after : {NoHeader}, body : Bodies(o, n)]
  \cup [status : StatusCodes \ {200, 429}, retry_after : {NoHeader}, body : {ErrorBody}]
  \cup (IF a < MaxAttempt
          THEN [status : {429}, retry_after : RetryAfterValues \cup {NoHeader},
                body : {ErrorBody}]
          ELSE {})

\* ----------------------------------------------------------------- actions
\* exporter.py:560-670: main parses the arguments, sets gentle mode and starts
\* a traversal: a cursor traversal (channel_list, user_list, channel_history:
\* combine key given) or the file inventory of save_files.
Main(g, o, ck) ==
  /\ pc = "main"
  /\ gentle' = g
  /\ ADDITIONAL_SLEEP_TIME' = AdditionalSleepTime(g, ADDITIONAL_SLEEP_TIME)
  /\ op' = o
  /\ IF o = "paginated_get"
       THEN /\ combine_key' = ck /\ next_cursor' = None /\ result' = << >> /\ page' = 1
            /\ pc' = "pg_loop"
            /\ UNCHANGED <<data, fl_vars>>
       ELSE /\ ck = None
            /\ current_page' = 1 /\ total_pages' = 1
            /\ pc' = "fl_loop"
            /\ UNCHANGED pg_vars
  /\ UNCHANGED <<cr_vars, ph_vars, sf_vars, saved, limited_before>>
  /\ UNCHANGED <<params, gd_vars, out_vars, hist_vars>>

\* exporter.py:51-56: a call of get_data(url, p).
GetDataCall(p) ==
  /\ params' = p
  /\ attempt' = InitialBackoff(limited_before).attempt
  /\ base_sleep' = InitialBackoff(limited_before).base_sleep
  /\ success' = FALSE /\ r' = NoResponse
  /\ wire' = << >> /\ slept' = << >> /\ return_sleep' = 0
  /\ ncalls' = ncalls + 1
  /\ pc' = "gd_loop"

\* exporter.py:58-88: one iteration of the loop of get_data, with the loop test
\* that follows it; the locals die when get_data returns r.
GetDataIteration(resp) ==
  LET a == attempt + 1
      limited == IsRateLimited(resp.status)
      ra == RetryAfter(resp, base_sleep, a)
      s == IF limited THEN success ELSE TRUE
  IN  /\ r' = resp
      /\ served' = IF resp.status # 429
                     THEN Append(served, [cursor |-> params.cursor, page |-> params.page,
                                          resp |-> resp])
                     ELSE served
      /\ IF WhileCondition(s)
           THEN /\ attempt' = a
                /\ success' = s
                /\ base_sleep' = IF limited THEN NextBaseSleep(base_sleep, a) ELSE base_sleep
                /\ wire' = Append(wire, [cursor |-> params.cursor, page |-> params.page,
                                         status |-> resp.status,
                                         retry_after |-> resp.retry_after])
                /\ slept' = IF limited
                              THEN Append(slept, [retry_after |-> ra,
                                     sleep_time |-> SleepTime(ra, ADDITIONAL_SLEEP_TIME)])
                              ELSE slept
                /\ return_sleep' = return_sleep
                /\ limited_before' = limited_before
                /\ pc' = "gd_loop"
           ELSE /\ attempt' = 0 /\ base_sleep' = 1 /\ success' = FALSE
                /\ wire' = << >> /\ slept' = << >>
                /\ return_sleep' = IF limited THEN 0 ELSE ReturnSleep(a)
                /\ limited_before' = (limited_before \/ attempt > 0)
                /\ pc' = "gd_returned"
      /\ UNCHANGED <<cr_vars, ph_vars, sf_vars, saved>>
      /\ UNCHANGED <<op, gentle, ADDITIONAL_SLEEP_TIME, params, pg_vars, fl_vars,
                     out_vars, ncalls, pacing>>

\* exporter.py:59-60, 77-86: the request is answered 429; get_data sleeps and
\* goes round the loop.
GetData_RateLimited(resp) ==
  /\ pc = "gd_loop"
  /\ resp \in ServerResponses(op, Len(served), attempt)
  /\ IsRateLimited(resp.status)
  /\ GetDataIteration(resp)

\* exporter.py:59-60, 72-76, 88: the request is answered otherwise; get_data
\* returns the response.
GetData_Success(resp) ==
  /\ pc = "gd_loop"
  /\ resp \in ServerResponses(op, Len(served), attempt)
  /\ ~IsRateLimited(resp.status)
  /\ GetDataIteration(resp)

\* exporter.py:135-139 and 94-98: paginated_get asks get_at_cursor for the
\* next page; get_at_cursor puts the cursor in params and calls get_data.
PaginatedGet_Fetch ==
  /\ pc = "pg_loop"
  /\ GetDataCall(IF next_cursor # None
                   THEN [params EXCEPT !.cursor = next_cursor]
                   ELSE params)
  /\ UNCHANGED <<cr_vars, ph_vars, sf_vars, saved, limited_before>>
  /\ UNCHANGED <<op, gentle, ADDITIONAL_SLEEP_TIME, pg_vars, fl_vars, out_vars,
                 served, pacing>>

\* exporter.py:100-127: get_at_cursor checks the response and returns
\* (next_cursor, d), or exits.
GetAtCursor_Return ==
  /\ pc = "gd_returned" /\ op # "get_file_list"
  /\ LET res == GetAtCursorResult(r)
     IN  /\ printed' = printed \o res.printed
         /\ IF res.exit
              THEN /\ signal' = LogicalFailureOutcome.signal
                   /\ exit_code' = LogicalFailureOutcome.exit_code
                   /\ pc' = "exit"
                   /\ UNCHANGED <<next_cursor, data>>
              ELSE /\ next_cursor' = res.next_cursor /\ data' = res.data
                   /\ pc' = "pg_combine"
                   /\ UNCHANGED <<signal, exit_code>>
  /\ UNCHANGED <<cr_vars, ph_vars, sf_vars, saved, limited_before>>
  /\ UNCHANGED <<op, gentle, ADDITIONAL_SLEEP_TIME, params, gd_vars, combine_key,
                 result, page, fl_vars, ret, hist_vars>>

\* exporter.py:141-157: paginated_get adds the page's items, then returns the
\* result, or sleeps and goes round; a KeyError exits, any other exception
\* reaches main's handler (exporter.py:677-679), which exits.
PaginatedGet_Combine ==
  /\ pc = "pg_combine"
  /\ LET c == Combine(data, combine_key)
     IN  IF c.raised = "KeyError"
           THEN /\ printed' = Append(printed, "Something went wrong")
                /\ signal' = StructuralErrorOutcome.signal
                /\ exit_code' = StructuralErrorOutcome.exit_code
                /\ pc' = "exit"
                /\ UNCHANGED <<result, page, pacing, ret>>
         ELSE IF c.raised # ""
           THEN /\ printed' = Append(printed, "Error during export")
                /\ signal' = c.raised /\ exit_code' = 1 /\ pc' = "exit"
                /\ UNCHANGED <<result, page, pacing, ret>>
         ELSE /\ result' = Extend(result, c.new_items)
              /\ pacing' = pacing \o PacingAfterPage(next_cursor)
              /\ IF next_cursor = None
                   THEN /\ ret' = result' /\ signal' = "return" /\ pc' = "done"
                        /\ UNCHANGED page
                   ELSE /\ page' = page + 1
                        /\ pc' = "pg_loop"
                        /\ UNCHANGED <<ret, signal>>
              /\ UNCHANGED <<printed, exit_code>>
  /\ UNCHANGED <<cr_vars, ph_vars, sf_vars, saved, limited_before>>
  /\ UNCHANGED <<op, gentle, ADDITIONAL_SLEEP_TIME, params, gd_vars, combine_key,
                 next_cursor, data, fl_vars, served, ncalls>>

\* exporter.py:182-184: get_file_list asks for the next page while there is one.
GetFileList_Fetch ==
  /\ pc = "fl_loop"
  /\ current_page <= total_pages
  /\ GetDataCall([params EXCEPT !.page = current_page])
  /\ UNCHANGED <<cr_vars, ph_vars, sf_vars, saved, limited_before>>
  /\ UNCHANGED <<op, gentle, ADDITIONAL_SLEEP_TIME, pg_vars, fl_vars, out_vars,
                 served, pacing>>

\* exporter.py:185-189: get_file_list reads the page count and yields the
\* page's files; a body without paging raises, which reaches main's handler
\* (exporter.py:677-679).
GetFileList_Page ==
  /\ pc = "gd_returned" /\ op = "get_file_list"
  /\ IF r.status # 200 \/ r.body.pages = 0
       THEN /\ printed' = Append(printed, "Error during export")
            /\ signal' = "KeyError" /\ exit_code' = 1 /\ pc' = "exit"
            /\ UNCHANGED <<fl_vars, ret>>
       ELSE /\ total_pages' = TotalPages(total_pages, current_page, r.body.pages)
            /\ ret' = ret \o r.body.files
            /\ current_page' = current_page + 1
            /\ pc' = "fl_loop"
            /\ UNCHANGED <<printed, signal, exit_code>>
  /\ UNCHANGED <<cr_vars, ph_vars, sf_vars, saved, limited_before>>
  /\ UNCHANGED <<op, gentle, ADDITIONAL_SLEEP_TIME, params, gd_vars, pg_vars, hist_vars>>

\* exporter.py:182, 490: the page counter has passed the page count; the
\* generator is exhausted.
GetFileList_Done ==
  /\ pc = "fl_loop"
  /\ current_page > total_pages
  /\ signal' = "return" /\ pc' = "done"
  /\ UNCHANGED <<cr_vars, ph_vars, sf_vars, saved, limited_before>>
  /\ UNCHANGED <<op, gentle, ADDITIONAL_SLEEP_TIME, params, gd_vars, pg_vars, fl_vars,
                 ret, exit_code, printed, hist_vars>>

Next ==
  \/ \E g \in BOOLEAN, o \in {"paginated_get", "get_file_list"}, ck \in {None, "messages"} :
       Main(g, o, ck)
  \/ \E resp \in ServerResponses(op, Len(served), attempt) : GetData_RateLimited(resp)
  \/ \E resp \in ServerResponses(op, Len(served), attempt) : GetData_Success(resp)
  \/ PaginatedGet_Fetch
  \/ GetAtCursor_Return
  \/ PaginatedGet_Combine
  \/ GetFileList_Fetch
  \/ GetFileList_Page
  \/ GetFileList_Done

Spec == Init /\ [][Next]_vars

\* The program is one thread that always takes its next step (a blocking
\* request or sleep ends).  The server does not answer 429 for ever: by
\* ServerResponses it answers a call otherwise after at most MaxAttempt 429s.
\* The runs checked for liveness are the cursor traversals with a combine
\* key, the way every caller in exporter.py starts one.
LiveNext ==
  \/ \E g \in BOOLEAN : Main(g, "paginated_get", "messages")
  \/ \E resp \in ServerResponses(op, Len(served), attempt) : GetData_RateLimited(resp)
  \/ \E resp \in ServerResponses(op, Len(served), attempt) : GetData_Success(resp)
  \/ PaginatedGet_Fetch
  \/ GetAtCursor_Return
  \/ PaginatedGet_Combine

LiveSpec == Init /\ [][LiveNext]_vars /\ WF_vars(LiveNext)

\* ------------------------------------------------------- channel_replies
\* The responses the server may give while threads are fetched: as for any
\* cursor traversal, with at most one 429 per request.
ThreadResponses(n, a) == ServerResponses("channel_replies", n, a + MaxAttempt - 1)

\* exporter.py:226-228, 656: main calls channel_replies(ts, ch_id).
ChannelReplies_Call(g, ts) ==
  /\ pc = "main"
  /\ gentle' = g
  /\ ADDITIONAL_SLEEP_TIME' = AdditionalSleepTime(g, ADDITIONAL_SLEEP_TIME)
  /\ op' = "channel_replies"
  /\ timestamps' = ts /\ replies' = << >> /\ thread_index' = 0
  /\ pc' = "cr_loop"
  /\ UNCHANGED <<params, gd_vars, pg_vars, fl_vars, out_vars, hist_vars, thread_pacing,
                 ph_vars>>
  /\ UNCHANGED <<sf_vars, saved, limited_before>>

\* exporter.py:230-242: the next thread; fresh params with its timestamp, and
\* the call of paginated_get with combine key "messages".
ChannelReplies_Thread ==
  /\ pc = "cr_loop" /\ thread_index < Len(timestamps)
  /\ thread_index' = thread_index + 1
  /\ params' = [cursor |-> None, page |-> 0, ts |-> timestamps[thread_index + 1]]
  /\ combine_key' = "messages" /\ next_cursor' = None /\ result' = << >> /\ page' = 1
  /\ served' = << >> /\ ncalls' = 0 /\ pacing' = << >>
  /\ signal' = ""
  /\ pc' = "pg_loop"
  /\ UNCHANGED <<op, gentle, ADDITIONAL_SLEEP_TIME, gd_vars, data, fl_vars, ret,
                 exit_code, printed, timestamps, replies, thread_pacing, ph_vars>>
  /\ UNCHANGED <<sf_vars, saved, limited_before>>

\* exporter.py:243-247: paginated_get returned the thread; it is appended and,
\* unless it was the last, channel_replies sleeps.
ChannelReplies_Append ==
  /\ pc = "done" /\ op = "channel_replies"
  /\ replies' = Append(replies, ret)
  /\ thread_pacing' = thread_pacing \o ThreadPacing(thread_index, Len(timestamps))
  /\ pc' = "cr_loop"
  /\ UNCHANGED <<op, gentle, ADDITIONAL_SLEEP_TIME, params, gd_vars, pg_vars, fl_vars,
                 out_vars, hist_vars, timestamps, thread_index, ph_vars>>
  /\ UNCHANGED <<sf_vars, saved, limited_before>>

\* exporter.py:249: return replies.
ChannelReplies_Return ==
  /\ pc = "cr_loop" /\ thread_index >= Len(timestamps)
  /\ ret' = replies /\ signal' = "return"
  /\ pc' = "cr_done"
  /\ UNCHANGED <<op, gentle, ADDITIONAL_SLEEP_TIME, params, gd_vars, pg_vars, fl_vars,
                 exit_code, printed, hist_vars, cr_vars, ph_vars>>
  /\ UNCHANGED <<sf_vars, saved, limited_before>>

RepliesNext ==
  \/ \E g \in BOOLEAN, ts \in TimestampLists : ChannelReplies_Call(g, ts)
  \/ ChannelReplies_Thread
  \/ \E resp \in ThreadResponses(Len(served), attempt) : GetData_RateLimited(resp)
  \/ \E resp \in ThreadResponses(Len(served), attempt) : GetData_Success(resp)
  \/ PaginatedGet_Fetch
  \/ GetAtCursor_Return
  \/ PaginatedGet_Combine
  \/ ChannelReplies_Append
  \/ ChannelReplies_Return

RepliesSpec == Init /\ [][RepliesNext]_vars

\* ------------------------------------------------------------ save_files
\* exporter.py:499: the most attempts save_files makes to download one file.
MaxDownloadAttempts == 10

\* Faulty variant of RetryDownload: one more attempt is allowed.
RetryDownload_OneMore(ok, a) == ~ok /\ a <= MaxDownloadAttempts + 1

\* exporter.py:499: the condition of the download loop.
RetryDownload(ok, a) == ~ok /\ a <= MaxDownloadAttempts

\* exporter.py:469-484: download_file returns True when the file is there
\* already or has been written, False when the request or the write raised.
download_file(exists, raises) == IF exists THEN TRUE ELSE ~raises

\* Faulty variant of GeneratorResumes: the inventory is fetched ahead of the
\* downloads.
GeneratorResumes_Eager(yielded, consumed) == TRUE

\* exporter.py:187-188, 490: get_file_list is a generator; it runs on (to the
\* next yield, the next request or its end) only when the for loop of
\* save_files asks for the next file, that is, when save_files has done with
\* every file yielded so far.
GeneratorResumes(yielded, consumed) == consumed = Len(yielded)

\* exporter.py:671-673, 487-490: main calls save_files, which starts to
\* iterate get_file_list.
SaveFiles_Call(g) ==
  /\ pc = "main"
  /\ gentle' = g
  /\ ADDITIONAL_SLEEP_TIME' = AdditionalSleepTime(g, ADDITIONAL_SLEEP_TIME)
  /\ op' = "get_file_list" /\ consumer' = "save_files"
  /\ current_page' = 1 /\ total_pages' = 1
  /\ total' = 0 /\ file_index' = 0 /\ sf_attempt' = 1 /\ download_success' = FALSE
  /\ pc' = "fl_loop"
  /\ UNCHANGED <<params, gd_vars, pg_vars, out_vars, hist_vars, cr_vars, ph_vars,
                 saved, limited_before>>

\* exporter.py:490, 182-184: the for loop asks for the next file and the
\* generator requests the next page.
SaveFiles_Fetch ==
  /\ consumer = "save_files"
  /\ GeneratorResumes(ret, file_index)
  /\ GetFileList_Fetch

\* exporter.py:497-501: one round of the download loop for the file in hand.
SaveFiles_Attempt(exists, raises) ==
  /\ pc = "fl_loop" /\ consumer = "save_files" /\ file_index < Len(ret)
  /\ RetryDownload(download_success, sf_attempt)
  /\ download_success' = download_file(exists, raises)
  /\ sf_attempt' = sf_attempt + 1
  /\ UNCHANGED <<pc, op, gentle, ADDITIONAL_SLEEP_TIME, params, gd_vars, pg_vars,
                 fl_vars, out_vars, hist_vars, cr_vars, ph_vars, consumer, file_index,
                 total, saved, limited_before>>

\* exporter.py:503, 506, 490-498: the file was downloaded; it is counted and
\* the loop goes to the next file, with fresh locals.
SaveFiles_Downloaded ==
  /\ pc = "fl_loop" /\ consumer = "save_files" /\ file_index < Len(ret)
  /\ ~RetryDownload(download_success, sf_attempt)
  /\ download_success
  /\ total' = total + 1
  /\ file_index' = file_index + 1
  /\ sf_attempt' = 1 /\ download_success' = FALSE
  /\ UNCHANGED <<pc, op, gentle, ADDITIONAL_SLEEP_TIME, params, gd_vars, pg_vars,
                 fl_vars, out_vars, hist_vars, cr_vars, ph_vars, consumer, saved,
                 limited_before>>

\* exporter.py:503-504, 677-679: every attempt failed; save_files raises,
\* main's handler prints the error and exits.
SaveFiles_Raise ==
  /\ pc = "fl_loop" /\ consumer = "save_files" /\ file_index < Len(ret)
  /\ ~RetryDownload(download_success, sf_attempt)
  /\ ~download_success
  /\ printed' = Append(printed, "Error during export")
  /\ signal' = "Exception" /\ exit_code' = 1
  /\ pc' = "exit"
  /\ UNCHANGED <<op, gentle, ADDITIONAL_SLEEP_TIME, params, gd_vars, pg_vars, fl_vars,
                 ret, hist_vars, cr_vars, ph_vars, sf_vars, saved, limited_before>>

\* exporter.py:490, 182: the for loop asks for the next file and the
\* generator ends.
SaveFiles_Exhausted ==
  /\ consumer = "save_files"
  /\ GeneratorResumes(ret, file_index)
  /\ GetFileList_Done

\* exporter.py:508-510: save_files reports the files it downloaded.
SaveFiles_Return ==
  /\ pc = "done" /\ consumer = "save_files"
  /\ printed' = Append(printed, "Downloaded")
  /\ pc' = "sf_done"
  /\ UNCHANGED <<op, gentle, ADDITIONAL_SLEEP_TIME, params, gd_vars, pg_vars, fl_vars,
                 ret, signal, exit_code, hist_vars, cr_vars, ph_vars, sf_vars, saved,
                 limited_before>>

FilesNext ==
  \/ \E g \in BOOLEAN : SaveFiles_Call(g)
  \/ SaveFiles_Fetch
  \/ \E resp \in ServerResponses(op, Len(served), attempt) : GetData_RateLimited(resp)
  \/ \E resp \in ServerResponses(op, Len(served), attempt) : GetData_Success(resp)
  \/ GetFileList_Page
  \/ \E exists \in BOOLEAN, raises \in BOOLEAN : SaveFiles_Attempt(exists, raises)
  \/ SaveFiles_Downloaded
  \/ SaveFiles_Raise
  \/ SaveFiles_Exhausted
  \/ SaveFiles_Return

FilesSpec == Init /\ [][FilesNext]_vars

\* ------------------------------------------------------- rendering: text
\* A Python str is a sequence of pieces: a piece is "\n", "\t", " " or a run
\* of text that holds none of the three and is not blank.
Whitespace == {" ", "\t", "\n"}

\* not s.strip()
IsBlank(s) == \A k \in 1..Len(s) : s[k] \in Whitespace

\* s.replace(old, new): the occurrences of old, left to right, not
\* overlapping; what new puts in is not scanned again.
RECURSIVE Replace(_, _, _)
Replace(s, old, new) ==
  IF Len(s) < Len(old) THEN s
  ELSE IF SubSeq(s, 1, Len(old)) = old
         THEN new \o Replace(SubSeq(s, Len(old) + 1, Len(s)), old, new)
         ELSE <<s[1]>> \o Replace(Tail(s), old, new)

\* s.split("\n")
RECURSIVE Split(_)
Split(s) ==
  IF \A k \in 1..Len(s) : s[k] # "\n" THEN <<s>>
  ELSE LET n == CHOOSE k \in 1..Len(s) :
                   s[k] = "\n" /\ \A j \in 1..(k - 1) : s[j] # "\n"
       IN  <<SubSeq(s, 1, n - 1)>> \o Split(SubSeq(s, n + 1, Len(s)))

\* sep.join(parts)
RECURSIVE Join(_, _)
Join(parts, sep) ==
  IF parts = << >> THEN << >>
  ELSE IF Len(parts) = 1 THEN parts[1]
  ELSE parts[1] \o sep \o Join(Tail(parts), sep)

\* s.rstrip("\t")
RECURSIVE RStripTabs(_)
RStripTabs(s) ==
  IF s # << >> /\ s[Len(s)] = "\t" THEN RStripTabs(SubSeq(s, 1, Len(s) - 1)) ELSE s

\* "*" * 24
Stars == "************************"

\* ------------------------------------------------------ rendering: users
\* What a function hands back: the value it returns or the exception it raises.
Returned(v) == [raised |-> "", value |-> v]
Raised(e) == [raised |-> e, value |-> ""]

\* A user record of users.list: keys are the keys the record has, profile the
\* keys its profile object has.  Every record carries its id and its name,
\* the profile and its fields may be missing.
UserIds == {"U1", "U2"}

ShortName(id) == IF id = "U1" THEN "ann" ELSE "bob"

User(id, has_profile, profile) ==
  [id |-> id, name |-> ShortName(id),
   keys |-> {"id", "name"} \cup (IF has_profile THEN {"profile"} ELSE {}),
   profile |-> profile,
   real_name |-> IF id = "U1" THEN "Ann Alba" ELSE "Bob Bell",
   display_name |-> IF id = "U1" THEN "annie" ELSE "bobby"]

UserRecords ==
  { User(id, FALSE, {}) : id \in UserIds }
  \cup { User(id, TRUE, pr) : id \in UserIds, pr \in SUBSET {"real_name", "display_name"} }

\* The users lists user_list() returns: no identifier occurs twice.
UsersLists ==
  {<< >>} \cup { <<u>> : u \in UserRecords }
  \cup UNION { { <<u, v>> : v \in { w \in UserRecords : w.id # u.id } } :
                 u \in UserRecords }

\* exporter.py:289, 292: user["profile"][f]
ProfileField(user, f) ==
  IF "profile" \in user.keys /\ f \in user.profile
    THEN Returned(IF f = "real_name" THEN user.real_name ELSE user.display_name)
    ELSE Raised("KeyError")

\* Faulty variant of FullName: a missing real name is not caught.
FullName_NoFallback(user) == ProfileField(user, "real_name")

\* exporter.py:287-294: the full name of a record: real name, else display
\* name, else the placeholder.
FullName(user) ==
  LET real_name == ProfileField(user, "real_name")
      display_name == ProfileField(user, "display_name")
  IN  IF real_name.raised # "KeyError" THEN real_name
      ELSE IF display_name.raised # "KeyError" THEN display_name
      ELSE Returned("[no full name]")

\* exporter.py:281-297: name_from_uid(user_id, users, real).
name_from_uid(user_id, users, real) ==
  LET found == { k \in 1..Len(users) : users[k].id = user_id }
  IN  IF found = {} THEN Returned("[null user]")
      ELSE LET user == users[CHOOSE k \in found : \A j \in found : k <= j]
           IN  IF real THEN FullName(user)
               ELSE IF "name" \in user.keys THEN Returned(user.name)
               ELSE Raised("KeyError")

\* --------------------------------------------------- rendering: records
\* The users lists the transcripts are rendered with.
ParseUsers == { << >>, <<User("U1", TRUE, {"real_name"}), User("U2", FALSE, {})>> }

\* "<@%s>" % u, with u a piece of its own
Mention(u) == <<"<@", u, ">">>

\* A text of two lines that mentions U1 twice, U2 once and the unknown U9 once.
MentionText ==
  <<"hi", " ">> \o Mention("U1") \o <<" ", "and", " ">> \o Mention("U9")
  \o <<"\n">> \o Mention("U1") \o Mention("U2")

TextValues == { << >>, <<" ">>, MentionText }

\* A field of an attachment and an attachment; keys are the keys it has.
Field(keys, title, value) == [keys |-> keys, title |-> title, value |-> value]

Attachment(keys, text, title, fields) ==
  [keys |-> keys, text |-> text, title |-> title, fields |-> fields]

AttachmentLists ==
  { << >>,
    <<Attachment({"title"}, << >>, <<"System Alert">>, << >>)>>,
    <<Attachment({"text"}, <<" ">>, << >>, << >>)>>,
    <<Attachment({"text", "title", "fields"}, <<"CPU high">>, <<"System Alert">>,
                 <<Field({"title", "value"}, <<"Severity">>, <<"High">>),
                   Field({"value"}, << >>, <<"prod-01">>)>>),
      Attachment({"fields"}, << >>, << >>, << >>)>> }

\* A file of a message: it has its id, and its name and download URL or not.
FileIds == <<"F1", "F2", "F3", "F4">>

FileKinds == { {"name", "url_private_download"}, {"url_private_download"}, {"name"} }

File(k, keys) ==
  [keys |-> {"id"} \cup keys, id |-> FileIds[k], name |-> "report.pdf",
   url_private_download |-> "https://files.slack.com/report.pdf"]

MessageFiles ==
  UNION { { [k \in 1..n |-> File(k, kinds[k])] : kinds \in [1..n -> FileKinds] } :
          n \in 0..MaxFiles }

ReactionLists ==
  { <<[name |-> "tada", users |-> <<"U1", "U9">>]>>,
    <<[name |-> "tada", users |-> <<"U2">>], [name |-> "eyes", users |-> << >>]>> }

\* A record of a message list: keys are the keys it has; every record has its
\* type and its ts.
BaseMessage ==
  [keys |-> {"type", "ts", "user", "text"}, type |-> "message",
   ts |-> "1609459200.000100", user |-> "U1", bot_id |-> "B01234567",
   username |-> "PetVM Bot", subtype |-> "bot_message", text |-> <<"hello">>,
   attachments |-> << >>, reactions |-> << >>, files |-> << >>]

\* Records that differ in who sent them.
IdentityMessages ==
  { [BaseMessage EXCEPT !.keys = {"type", "ts", "text"} \cup who] :
      who \in SUBSET {"user", "bot_id", "username", "subtype"} }
  \cup { [BaseMessage EXCEPT !.keys = {"type", "ts", "text", "user"} \cup who,
                              !.user = "U9"] :
           who \in SUBSET {"bot_id", "username", "subtype"} }

\* Records that differ in their text and attachments.
TextMessages ==
  { [BaseMessage EXCEPT !.keys = {"type", "ts", "user"}] }
  \cup { [BaseMessage EXCEPT !.text = t] : t \in TextValues }
  \cup { [BaseMessage EXCEPT !.keys = {"type", "ts", "user", "attachments"},
                              !.attachments = a] : a \in AttachmentLists }
  \cup { [BaseMessage EXCEPT !.keys = @ \cup {"attachments"}, !.text = t,
                              !.attachments = a] :
           t \in TextValues, a \in AttachmentLists }

\* Records that differ in their files and reactions.
FileMessages ==
  { [BaseMessage EXCEPT !.keys = @ \cup {"files"}, !.files = f] : f \in MessageFiles }

ReactionMessages ==
  { [BaseMessage EXCEPT !.keys = @ \cup {"reactions"}, !.reactions = x] :
      x \in ReactionLists }

\* The record is a reply of a thread.
WithParent(m) == [m EXCEPT !.keys = @ \cup {"parent_user_id"}]

Messages ==
  LET top == IdentityMessages \cup TextMessages \cup FileMessages \cup ReactionMessages
  IN  top \cup { WithParent(m) : m \in top }

\* The records that fill a list up: a later message that mentions its
\* sender, a reply, and a record that is not of type "message".
PlainMessages ==
  { [BaseMessage EXCEPT !.ts = "1609459260.600200", !.user = "U2",
                        !.text = Mention("U2")],
    WithParent([BaseMessage EXCEPT !.ts = "1609459260.600200"]),
    [BaseMessage EXCEPT !.type = "file_comment"] }

\* The message lists: at most MaxMsgs records, in any order, at most one of
\* them not a plain one.
MessageLists ==
  UNION { [1..n -> PlainMessages]
          \cup { [plain EXCEPT ![k] = m] :
                   plain \in [1..n -> PlainMessages], k \in 1..n, m \in Messages } :
          n \in 0..MaxMsgs }

\* ------------------------------------- rendering: parse_channel_history
\* exporter.py:357: the records of type "message".
IsMessage(x) == x.type = "message"

\* Faulty variant of FilterMessages: every record is rendered.
FilterMessages_All(msgs) == msgs

FilterMessages(msgs) == SelectSeq(msgs, IsMessage)

\* exporter.py:361, 367, 375: the kind of sender of a record.
SenderType(msg) ==
  IF "user" \in msg.keys THEN "user"
  ELSE IF "bot_id" \in msg.keys \/ "username" \in msg.keys THEN "bot"
  ELSE "unknown"

\* exporter.py:369: msg.get("username", msg.get("bot_id", "Bot")).
BotName(msg) ==
  IF "username" \in msg.keys THEN msg.username
  ELSE IF "bot_id" \in msg.keys THEN msg.bot_id
  ELSE "Bot"

\* exporter.py:361-376: usr; the lookups of a user's names may raise.
Usr(msg, users) ==
  IF SenderType(msg) = "user"
    THEN [name |-> name_from_uid(msg.user, users, FALSE),
          real_name |-> name_from_uid(msg.user, users, TRUE), type |-> "user"]
  ELSE IF SenderType(msg) = "bot"
    THEN [name |-> Returned(BotName(msg)), real_name |-> Returned(BotName(msg)),
          type |-> "bot"]
  ELSE [name |-> Returned("Unknown"), real_name |-> Returned("Unknown"),
        type |-> "unknown"]

\* exporter.py:378-380: the timestamp, rounded to the second and formatted
\* (in UTC).
FormatTimestamp(ts) ==
  IF ts = "1609459200.000100" THEN "2021-01-01 00:00:00" ELSE "2021-01-01 00:01:01"

\* exporter.py:395-398: the lines of the fields of an attachment.
RECURSIVE FieldsText(_)
FieldsText(fields) ==
  IF fields = << >> THEN << >>
  ELSE LET field == fields[1]
           title == IF "title" \in field.keys THEN field.title ELSE << >>
           value == IF "value" \in field.keys THEN field.value ELSE << >>
       IN  title \o <<": ">> \o value \o <<"\n">> \o FieldsText(Tail(fields))

\* exporter.py:389-398: what the attachments add to the text.
RECURSIVE AttachmentsText(_)
AttachmentsText(attachments) ==
  IF attachments = << >> THEN << >>
  ELSE LET att == attachments[1]
       IN  (IF "text" \in att.keys THEN att.text \o <<"\n">> ELSE << >>)
           \o (IF "title" \in att.keys THEN <<"Title: ">> \o att.title \o <<"\n">>
                                          ELSE << >>)
           \o (IF "fields" \in att.keys THEN FieldsText(att.fields) ELSE << >>)
           \o AttachmentsText(Tail(attachments))

\* Faulty variant of MessageText: the attachments are not read.
MessageText_TextOnly(msg) ==
  IF "text" \in msg.keys /\ ~IsBlank(msg.text) THEN msg.text ELSE << >>

\* exporter.py:383-398: the text of the record, or of its attachments.
MessageText(msg) ==
  IF "text" \in msg.keys /\ ~IsBlank(msg.text) THEN msg.text
  ELSE IF "attachments" \in msg.keys THEN AttachmentsText(msg.attachments)
  ELSE << >>

\* exporter.py:400-401: the placeholder for a blank text.
TextOrPlaceholder(text) == IF IsBlank(text) THEN <<"[no message content]">> ELSE text

\* Faulty variant of MentionIds: every identifier is scanned for twice.
MentionIds_Twice(users) ==
  [k \in 1..(2 * Len(users)) |-> users[((k - 1) % Len(users)) + 1].id]

\* exporter.py:404: [x["id"] for x in users].
MentionIds(users) == [k \in 1..Len(users) |-> users[k].id]

\* exporter.py:404-407: the mentions of the users in ids are given the
\* user's name, one user after the other.
RECURSIVE ReplaceMentions(_, _, _)
ReplaceMentions(text, ids, users) ==
  IF ids = << >> THEN text
  ELSE LET u == ids[1]
       IN  ReplaceMentions(
             Replace(text, Mention(u),
                     Mention(u) \o <<" (", name_from_uid(u, users, FALSE).value, ")">>),
             Tail(ids), users)

\* exporter.py:410-422: "Message at %s\nBot: %s\n%s" for a bot, else
\* "Message at %s\nUser: %s (%s)\n%s".
Header(usr, timestamp, text) ==
  IF usr.type = "bot"
    THEN <<"Message at ", timestamp, "\n", "Bot: ", usr.name.value, "\n">> \o text
    ELSE <<"Message at ", timestamp, "\n", "User: ", usr.name.value, " (",
           usr.real_name.value, ")", "\n">> \o text

\* exporter.py:429: ", ".join(name_from_uid(u, users) for u in x["users"]).
RECURSIVE ReactionNames(_, _)
ReactionNames(uids, users) ==
  IF uids = << >> THEN << >>
  ELSE <<<<name_from_uid(uids[1], users, FALSE).value>>>>
       \o ReactionNames(Tail(uids), users)

\* exporter.py:425-431: "\nReactions: " and "%s (%s)" for every reaction.
RECURSIVE ReactionItems(_, _)
ReactionItems(rxns, users) ==
  IF rxns = << >> THEN << >>
  ELSE << <<rxns[1].name, " (">> \o Join(ReactionNames(rxns[1].users, users), <<", ">>)
          \o <<")">> >>
       \o ReactionItems(Tail(rxns), users)

ReactionsText(msg, users) ==
  IF "reactions" \in msg.keys
    THEN <<"\n", "Reactions: ">> \o Join(ReactionItems(msg.reactions, users), <<", ">>)
    ELSE << >>

\* exporter.py:436-438: the files without a name or without a download URL.
IsDeleted(f) == "name" \notin f.keys \/ "url_private_download" \notin f.keys

\* exporter.py:441-443: " - [%s] %s, %s".
OkLine(f) == <<" - [", f.id, "] ", f.name, ", ", f.url_private_download>>

\* exporter.py:445-447: " - [%s] [deleted, oversize, or unavailable file]".
DeletedLine(f) == <<" - [", f.id, "] ", "[deleted, oversize, or unavailable file]">>

\* exporter.py:434-448: "\nFiles:\n", the joined lines of the files that can
\* be fetched, then the joined lines of those that cannot.
FilesText(msg) ==
  IF "files" \in msg.keys
    THEN LET files == msg.files
             deleted == SelectSeq(files, IsDeleted)
             NotDeleted(f) == \A k \in 1..Len(deleted) : deleted[k] # f
             ok_files == SelectSeq(files, NotDeleted)
         IN  <<"\n", "Files:", "\n">>
             \o Join([k \in 1..Len(ok_files) |-> OkLine(ok_files[k])], <<"\n">>)
             \o Join([k \in 1..Len(deleted) |-> DeletedLine(deleted[k])], <<"\n">>)
    ELSE << >>

\* exporter.py:450: "\n\n%s\n\n" % ("*" * 24).
Separator == <<"\n", "\n", Stars, "\n", "\n">>

\* Faulty variant of IsReply: the context of the rendering is not looked at.
IsReply_AnyContext(in_thread, msg) == "parent_user_id" \in msg.keys

\* exporter.py:452: check_thread and "parent_user_id" in msg.
IsReply(in_thread, msg) == in_thread /\ "parent_user_id" \in msg.keys

\* exporter.py:453: "\n".join("\t%s" % x for x in entry.split("\n")).
Indent(entry) ==
  LET lines == Split(entry)
  IN  Join([k \in 1..Len(lines) |-> <<"\t">> \o lines[k]], <<"\n">>)

\* exporter.py:382-407: the text of the entry.
EntryText(msg, users) ==
  ReplaceMentions(TextOrPlaceholder(MessageText(msg)), MentionIds(users), users)

\* exporter.py:359-455: what one record adds to body.
Entry(msg, users, in_thread) ==
  LET entry == Header(Usr(msg, users), FormatTimestamp(msg.ts), EntryText(msg, users))
               \o ReactionsText(msg, users) \o FilesText(msg) \o Separator
  IN  RStripTabs(IF IsReply(in_thread, msg) THEN Indent(entry) ELSE entry)

\* A lookup made for the record raises.
EntryRaises(msg, users) ==
  \/ Usr(msg, users).name.raised # ""
  \/ Usr(msg, users).real_name.raised # ""
  \/ \E k \in 1..Len(users) : name_from_uid(users[k].id, users, FALSE).raised # ""

\* ---------------------------------------------------- rendering: actions
\* exporter.py:606-607: a thread as channel_replies returns it, the parent and
\* a reply.
PlainThread == <<BaseMessage, WithParent([BaseMessage EXCEPT !.ts = "1609459260.600200"])>>

ThreadLists ==
  {<< >>} \cup { <<msgs>> : msgs \in MessageLists }
  \cup { <<msgs, PlainThread>> : msgs \in MessageLists }

\* ------------------------------------ rendering: save_channel, save_replies
\* The channel identifiers main is given (a.ch) or takes from the channel
\* list; "C9" is in no channel list.
ChannelIds == {"C1", "C9"}

Channel(id) == [id |-> id, name |-> IF id = "C1" THEN "general" ELSE "random"]

\* The channel lists channel_list() returns.
ChannelLists == { << >>, <<Channel("C1")>>, <<Channel("C2"), Channel("C1")>> }

\* The str "[null channel]" as Python iterates it: character by character.
NullChannel == <<"[", "n", "u", "l", "l", " ", "c", "h", "a", "n", "n", "e", "l", "]">>

\* exporter.py:300-304: the pair (name, "Channel") of the first channel with
\* the identifier, else the str "[null channel]".
name_from_ch_id(channel_id, channels) ==
  LET found == { k \in 1..Len(channels) : channels[k].id = channel_id }
  IN  IF found = {} THEN NullChannel
      ELSE <<channels[CHOOSE k \in found : \A j \in found : k <= j].name, "Channel">>

\* exporter.py:601, 618: `ch_name, ch_type = v` takes the two elements v
\* iterates to, and raises ValueError when v has another number of them.
Unpack(v) ==
  IF Len(v) = 2 THEN [raised |-> "", ch_name |-> v[1], ch_type |-> v[2]]
  ELSE [raised |-> "ValueError", ch_name |-> "", ch_type |-> ""]

\* exporter.py:619-624: the head of a channel transcript.
ChannelHeader(channel_id, ch_type, ch_name, n) ==
  <<"Channel ID: ", channel_id, "\n", ch_type, " Name: ", ch_name, "\n",
    ToString(n), " Messages", "\n", Stars, "\n", "\n">>

\* exporter.py:602-608: the head of a thread transcript.
RepliesHeader(ch_type, ch_name, n) ==
  <<"Threads in ", ch_type, ": ", ch_name, "\n", ToString(n), " Messages", "\n",
    Stars, "\n", "\n">>

\* A record that started a thread.
WithReplies(m) == [m EXCEPT !.keys = @ \cup {"reply_count"}]

\* exporter.py:594: the timestamps of the records that started a thread.
ReplyTimestamps(channel_hist) ==
  LET parents == SelectSeq(channel_hist, LAMBDA x : "reply_count" \in x.keys)
  IN  [k \in 1..Len(parents) |-> parents[k].ts]

\* The channel histories handed to save_channel and save_replies.
ChannelHistories ==
  { << >>, <<BaseMessage>>,
    <<WithReplies(BaseMessage), [BaseMessage EXCEPT !.ts = "1609459260.600200"]>> }

\* exporter.py:597: what channel_replies returned for the timestamps, one
\* thread for each.
ThreadsFetched(ts) == [k \in 1..Len(ts) |-> PlainThread]

\* exporter.py:649, 657, 665: the calls of save_channel and save_replies, with
\* the flags a.json and a.r.
SaveTasks ==
  { t \in [fn : {"save_channel", "save_replies"}, channel_id : ChannelIds,
           channels : ChannelLists, msgs : ChannelHistories,
           threads : { ThreadsFetched(ReplyTimestamps(h)) : h \in ChannelHistories },
           users : ParseUsers, json : BOOLEAN, r : BOOLEAN] :
      /\ t.threads = ThreadsFetched(ReplyTimestamps(t.msgs))
      /\ t.fn = "save_replies" => t.r }

\* The calls of the parsing functions: a lookup of a name (exporter.py:266,
\* 363, 406, 429), the transcript of a channel (:617) and of its threads (:607).
Tasks ==
  [fn : {"name_from_uid"}, user_id : UserIds \cup {"U9"}, users : UsersLists,
   real : BOOLEAN]
  \cup [fn : {"parse_channel_history"}, msgs : MessageLists, users : ParseUsers]
  \cup [fn : {"parse_replies"}, threads : ThreadLists, users : ParseUsers]
  \cup SaveTasks

RenderInit == pc = "render" /\ Idle /\ task \in Tasks /\ ParseIdle

rt_vars == <<op, gentle, ADDITIONAL_SLEEP_TIME, params, gd_vars, pg_vars, fl_vars,
             hist_vars, cr_vars, sf_vars, limited_before>>

\* exporter.py:281-297: name_from_uid is called and returns or raises.
NameFromUid_Call ==
  /\ pc = "render" /\ task.fn = "name_from_uid"
  /\ LET res == name_from_uid(task.user_id, task.users, task.real)
     IN  /\ ret' = res.value
         /\ signal' = IF res.raised = "" THEN "return" ELSE res.raised
  /\ pc' = "returned"
  /\ UNCHANGED <<rt_vars, exit_code, printed, ph_vars>>
  /\ UNCHANGED saved

\* exporter.py:353-358: parse_channel_history(msgs, users, check_thread); a
\* list of records has no element "messages", so msgs stays the list.
ParseChannelHistory(msgs, ct) ==
  /\ messages' = FilterMessages(msgs)
  /\ check_thread' = ct
  /\ body' = << >> /\ rendered' = 0 /\ blocks' = << >>
  /\ pc' = "pch_loop"

\* exporter.py:617: save_channel calls it for the channel history.
ParseChannelHistory_Call ==
  /\ pc = "render" /\ task.fn = "parse_channel_history"
  /\ ParseChannelHistory(task.msgs, FALSE)
  /\ UNCHANGED <<rt_vars, out_vars, task, thread_no, replies_body>>
  /\ UNCHANGED saved

\* exporter.py:359-455: one round of the loop over messages; an exception
\* of a lookup reaches main's handler (exporter.py:677-679).
ParseChannelHistory_Message ==
  /\ pc = "pch_loop" /\ rendered < Len(messages)
  /\ LET msg == messages[rendered + 1]
         entry == Entry(msg, task.users, check_thread)
     IN  IF EntryRaises(msg, task.users)
           THEN /\ printed' = Append(printed, "Error during export")
                /\ signal' = "KeyError" /\ exit_code' = 1 /\ pc' = "exit"
                /\ UNCHANGED <<body, rendered, blocks, ret>>
           ELSE /\ body' = body \o entry
                /\ rendered' = rendered + 1
                /\ blocks' = Append(blocks,
                     [msg |-> msg, text |-> TextOrPlaceholder(MessageText(msg)),
                      shown |-> EntryText(msg, task.users), entry |-> entry])
                /\ pc' = "pch_loop"
                /\ UNCHANGED out_vars
  /\ UNCHANGED <<rt_vars, task, messages, check_thread, thread_no, replies_body>>
  /\ UNCHANGED saved

\* exporter.py:457, 463-464, 617: return body, to parse_replies (thread_no
\* counts its rounds), which adds it and a newline to its own body, to
\* save_channel or to main.
ParseChannelHistory_Return ==
  /\ pc = "pch_loop" /\ rendered >= Len(messages)
  /\ IF thread_no > 0
       THEN /\ replies_body' = replies_body \o body \o <<"\n">>
            /\ pc' = "pr_loop"
            /\ UNCHANGED out_vars
       ELSE IF task.fn = "save_channel"
       THEN /\ pc' = "sc_header"
            /\ UNCHANGED <<replies_body, out_vars>>
       ELSE /\ ret' = body /\ signal' = "return"
            /\ pc' = "returned"
            /\ UNCHANGED <<replies_body, exit_code, printed>>
  /\ UNCHANGED <<rt_vars, task, messages, check_thread, body, rendered, thread_no,
                 blocks>>
  /\ UNCHANGED saved

\* exporter.py:460-461, 607: save_replies calls parse_replies(threads, users).
ParseReplies_Call ==
  /\ pc = "render" /\ task.fn = "parse_replies"
  /\ replies_body' = << >> /\ thread_no' = 0
  /\ pc' = "pr_loop"
  /\ UNCHANGED <<rt_vars, out_vars, task, messages, check_thread, body, rendered,
                 blocks>>
  /\ UNCHANGED saved

\* exporter.py:462-463: the next thread is parsed in thread context.
ParseReplies_Thread ==
  /\ pc = "pr_loop" /\ thread_no < Len(task.threads)
  /\ thread_no' = thread_no + 1
  /\ ParseChannelHistory(task.threads[thread_no + 1], TRUE)
  /\ UNCHANGED <<rt_vars, out_vars, task, replies_body>>
  /\ UNCHANGED saved

\* exporter.py:466: return body.
ParseReplies_Return ==
  /\ pc = "pr_loop" /\ thread_no >= Len(task.threads)
  /\ task.fn = "parse_replies"
  /\ ret' = replies_body /\ signal' = "return"
  /\ pc' = "returned"
  /\ UNCHANGED <<rt_vars, exit_code, printed, ph_vars>>
  /\ UNCHANGED saved

\* exporter.py:677-679: an exception reaches main's handler, which prints it
\* and exits.
ErrorDuringExport(e) ==
  /\ printed' = Append(printed, "Error during export")
  /\ signal' = e /\ exit_code' = 1
  /\ pc' = "exit"

\* exporter.py:609: save(data, name), and the return from save_replies.
SaveRepliesData(content) ==
  /\ saved' = Append(saved, [name |-> "channel-replies", data |-> content])
  /\ signal' = "return"
  /\ pc' = "returned"

\* exporter.py:625-627: save(data, name); save_channel then calls
\* save_replies when a.r is set, else returns.
SaveChannelData(content) ==
  /\ saved' = Append(saved, [name |-> "channel", data |-> content])
  /\ IF task.r THEN pc' = "sr_call" /\ signal' = signal
               ELSE pc' = "returned" /\ signal' = "return"

\* exporter.py:613-617, 625: save_channel(channel_hist, channel_id,
\* channel_list, users); with a.json the records are saved as they are, else
\* parse_channel_history is called.
SaveChannel_Call ==
  /\ pc = "render" /\ task.fn = "save_channel"
  /\ IF task.json
       THEN /\ SaveChannelData(task.msgs)
            /\ UNCHANGED <<messages, check_thread, body, rendered, blocks>>
       ELSE /\ ParseChannelHistory(task.msgs, FALSE)
            /\ UNCHANGED <<saved, signal>>
  /\ UNCHANGED <<rt_vars, ret, exit_code, printed, task, thread_no, replies_body>>

\* exporter.py:618-627: the transcript is there; the channel's name and type
\* are looked up and unpacked, the head is put before the transcript and the
\* whole is saved.
SaveChannel_Header ==
  /\ pc = "sc_header"
  /\ LET u == Unpack(name_from_ch_id(task.channel_id, task.channels))
     IN  IF u.raised # ""
           THEN /\ ErrorDuringExport(u.raised)
                /\ UNCHANGED saved
           ELSE /\ SaveChannelData(
                     ChannelHeader(task.channel_id, u.ch_type, u.ch_name, Len(task.msgs))
                     \o body)
                /\ UNCHANGED <<exit_code, printed>>
  /\ UNCHANGED <<rt_vars, ret, ph_vars>>

\* exporter.py:593-609: save_replies(channel_hist, channel_id, channel_list,
\* users), called by main or by save_channel.  Without threads nothing is
\* saved; with a.json the threads are saved as they are; else the channel's
\* name and type are looked up and unpacked and parse_replies is called.
SaveReplies_Call ==
  /\ \/ pc = "render" /\ task.fn = "save_replies"
     \/ pc = "sr_call"
  /\ LET u == Unpack(name_from_ch_id(task.channel_id, task.channels))
     IN  IF ReplyTimestamps(task.msgs) = << >>
           THEN /\ printed' = Append(printed, "No threads found")
                /\ signal' = "return" /\ pc' = "returned"
                /\ UNCHANGED <<saved, exit_code, thread_no, replies_body>>
         ELSE IF task.json
           THEN /\ SaveRepliesData(task.threads)
                /\ UNCHANGED <<exit_code, printed, thread_no, replies_body>>
         ELSE IF u.raised # ""
           THEN /\ ErrorDuringExport(u.raised)
                /\ UNCHANGED <<saved, thread_no, replies_body>>
         ELSE /\ replies_body' = << >> /\ thread_no' = 0
              /\ pc' = "pr_loop"
              /\ UNCHANGED <<saved, out_vars>>
  /\ UNCHANGED <<rt_vars, ret, task, messages, check_thread, body, rendered, blocks>>

\* exporter.py:607-609: parse_replies returned; the head is put before its
\* body and the whole is saved.
SaveReplies_Save ==
  /\ pc = "pr_loop" /\ thread_no >= Len(task.threads)
  /\ task.fn \in {"save_channel", "save_replies"}
  /\ LET u == Unpack(name_from_ch_id(task.channel_id, task.channels))
     IN  SaveRepliesData(RepliesHeader(u.ch_type, u.ch_name, Len(task.threads))
                         \o replies_body)
  /\ UNCHANGED <<rt_vars, ret, exit_code, printed, ph_vars>>

RenderNext ==
  \/ NameFromUid_Call
  \/ ParseChannelHistory_Call
  \/ ParseChannelHistory_Message
  \/ ParseChannelHistory_Return
  \/ ParseReplies_Call
  \/ ParseReplies_Thread
  \/ ParseReplies_Return
  \/ SaveChannel_Call
  \/ SaveChannel_Header
  \/ SaveReplies_Call
  \/ SaveReplies_Save

RenderSpec == RenderInit /\ [][RenderNext]_vars

\* ------------------------------------------------------------------ claims
All429(w) == \A i \in 1..Len(w) : w[i].status = 429

Hintless(w) == \A i \in 1..Len(w) : w[i].retry_after = NoHeader

\* C1: get_data returns exactly the first response that is not a 429.  While
\* the call is in its loop every response it has received was a 429 and no
\* other response has been served to it; the step that returns hands back the
\* response of the one request made in that step, which is not a 429; so the
\* call made (number of leading 429 responses) + 1 requests.
C1_ReturnsFirstNon429 ==
  /\ [](pc = "gd_loop" =>
          /\ All429(wire) /\ Len(wire) = attempt
          /\ Len(served) = ncalls - 1)
  /\ [](pc = "gd_returned" =>
          /\ r.status # 429
          /\ Len(served) = ncalls
          /\ served[Len(served)].resp = r)
  /\ [][(pc = "gd_loop" /\ pc' # "gd_loop") =>
          /\ pc' = "gd_returned"
          /\ All429(wire)
          /\ Len(served') = Len(served) + 1]_vars

\* C1 witness: get_data has returned a non-429 error response after at least
\* one rate-limited attempt.
C1_Witness == pc = "gd_returned" /\ return_sleep = 1 /\ r.status = 500

\* C2 (as claimed): in a call whose 429 responses carry no Retry-After, the
\* computed delay (before ADDITIONAL_SLEEP_TIME is added) never exceeds 60.
C2_DelayAtMost60 ==
  (pc = "gd_loop" /\ Hintless(wire)) =>
     \A i \in 1..Len(slept) : slept[i].retry_after <= 60

\* C3: get_data has no attempt ceiling.  Whatever the number of attempts, a
\* 429 response keeps the call in its loop and neither ends nor fails the
\* program; a call returns only a response that is not a 429; and, when the
\* server eventually answers otherwise, the call eventually returns that
\* response.
C3_RetriesWithoutCeiling ==
  /\ [][(pc = "gd_loop" /\ r'.status = 429) =>
          (pc' = "gd_loop" /\ exit_code' = -1 /\ signal' = "")]_vars
  /\ [](pc = "gd_returned" => r.status # 429)
  /\ (pc = "gd_loop") ~> (pc = "gd_returned" /\ r.status # 429)

\* C3 witness: a call that has been answered 429 four times is still in its
\* loop, about to request again.
C3_Witness == pc = "gd_loop" /\ Len(wire) >= 4 /\ All429(wire) /\ exit_code = -1

\* The items of the pages served, in page order.
RECURSIVE ItemsOf(_)
ItemsOf(pages) ==
  IF pages = << >> THEN << >>
  ELSE ItemsOf(SubSeq(pages, 1, Len(pages) - 1)) \o pages[Len(pages)].resp.body.items

\* A page that get_at_cursor and paginated_get accept: 200, ok, combine key present.
SuccessfulPage(p) ==
  p.resp.status = 200 /\ p.resp.body.ok = "true" /\ p.resp.body.has_key

CursorFor(k) == IF k = 1 THEN None ELSE served[k - 1].resp.body.next_cursor

Blank(c) == c \in {None, "", " ", "  "}

\* C5: in a cursor traversal the first request carries no cursor, request
\* k + 1 carries the next_cursor of response k (so do its retries after a
\* 429), no request carries an empty or blank cursor, and no page is asked
\* for after a response whose next_cursor is absent, empty or blank.
C5_CursorChain ==
  op = "paginated_get" =>
    /\ \A k \in 1..Len(served) :
         /\ served[k].cursor = CursorFor(k)
         /\ served[k].cursor \notin {"", " ", "  "}
         /\ k < Len(served) => ~Blank(served[k].resp.body.next_cursor)
    /\ \A i \in 1..Len(wire) :
         /\ wire[i].cursor = CursorFor(Len(served) + 1)
         /\ wire[i].cursor \notin {"", " ", "  "}
    /\ (pc \in {"pg_loop", "gd_loop"} /\ Len(served) >= 1)
         => ~Blank(served[Len(served)].resp.body.next_cursor)
    /\ (pc = "gd_loop") => params.cursor = CursorFor(Len(served) + 1)

\* C5 witness: the second and third page have been asked for with the cursor
\* of the page before, and the traversal stopped at a blank cursor.
C5_Witness ==
  /\ op = "paginated_get" /\ pc = "done" /\ Len(served) = 3
  /\ served[2].cursor = "c2" /\ served[3].cursor = "c1"
  /\ served[3].resp.body.next_cursor = "  "

\* A page that is a logical failure or not a 200.
FailedPage(p) == p.resp.status # 200 \/ p.resp.body.ok = "false"

\* C6: once get_at_cursor has seen a page that is a logical failure or not a
\* 200, the traversal is over: the process exits with status 1 and the items
\* of the earlier pages are never returned.
C6_FailureAborts ==
  (/\ op = "paginated_get" /\ pc # "gd_returned"
   /\ \E k \in 1..Len(served) : FailedPage(served[k]))
  => /\ pc = "exit" /\ exit_code = 1
     /\ signal = "SystemExit"
     /\ ret = << >>

\* C6 witness: the third page failed logically after two pages with items.
C6_Witness ==
  /\ op = "paginated_get" /\ pc = "exit" /\ Len(served) = 3
  /\ served[3].resp.status = 200 /\ served[3].resp.body.ok = "false"
  /\ Len(result) = 4 /\ ret = << >>

\* A page that is ok but lacks the combine key.
StructuralPage(p) ==
  p.resp.status = 200 /\ p.resp.body.ok = "true" /\ ~p.resp.body.has_key

\* How the program ended, as the caller of the traversal sees it.
Outcome == [signal |-> signal, exit_code |-> exit_code]

LastPrinted == IF printed = << >> THEN "" ELSE printed[Len(printed)]

\* C7 (as claimed): the abort on a page that lacks the combine key is an
\* outcome the caller can tell apart from the outcome of a logical failure.
C7_StructuralOutcomeDistinct ==
  (/\ op = "paginated_get" /\ combine_key # None /\ pc = "exit"
   /\ Len(served) >= 1 /\ StructuralPage(served[Len(served)]))
  => Outcome # LogicalFailureOutcome

\* C7 (amended): a page that is ok but lacks the combine key ends the program
\* by sys.exit(1), the very exit a logical failure takes; the two differ only
\* in the message printed before it.
C7_StructuralAbortSameExit ==
  /\ (/\ op = "paginated_get" /\ combine_key # None
      /\ pc \notin {"gd_returned", "pg_combine"}
      /\ \E k \in 1..Len(served) : StructuralPage(served[k]))
     => /\ pc = "exit"
        /\ Outcome = LogicalFailureOutcome
        /\ LastPrinted = "Something went wrong"
        /\ ret = << >>
  /\ (/\ op = "paginated_get" /\ pc # "gd_returned"
      /\ \E k \in 1..Len(served) :
           served[k].resp.status = 200 /\ served[k].resp.body.ok = "false")
     => /\ pc = "exit"
        /\ Outcome = LogicalFailureOutcome
        /\ LastPrinted = "I encountered an error"

\* C7 witness: the second page was ok but had no combine key, and the program
\* has exited.
C7_Witness ==
  /\ op = "paginated_get" /\ combine_key # None /\ pc = "exit"
  /\ Len(served) = 2 /\ StructuralPage(served[2])
  /\ LastPrinted = "Something went wrong"

\* The delay get_data computes on its n-th attempt when the 429 carries no
\* Retry-After: base_sleep is 1, 2, 4, 8, 8, ... and the delay base_sleep * 2^(n-1).
ExpectedDelay(n) == (IF n <= 3 THEN 2 ^ (n - 1) ELSE 8) * (2 ^ (n - 1))

\* C8: every 429 is followed, before the next request, by one sleep of
\* delay + ADDITIONAL_SLEEP_TIME, where delay is the Retry-After value when
\* the response has one and the computed delay otherwise, and
\* ADDITIONAL_SLEEP_TIME is 5, or 10 in gentle mode.
C8_SleepIsDelayPlusBuffer ==
  /\ ADDITIONAL_SLEEP_TIME = (IF gentle THEN 10 ELSE 5)
  /\ pc = "gd_loop" =>
       /\ Len(slept) = Len(wire)
       /\ \A i \in 1..Len(wire) :
            slept[i].sleep_time =
              (IF wire[i].retry_after # NoHeader THEN wire[i].retry_after
                                                 ELSE ExpectedDelay(i))
              + (IF gentle THEN 10 ELSE 5)

\* C8 witness: in gentle mode a 429 with Retry-After 30 and then a 429
\* without one have been slept for: 40 and 14 seconds.
C8_Witness ==
  /\ pc = "gd_loop" /\ gentle /\ Len(slept) = 2
  /\ wire[1].retry_after = 30 /\ slept[1].sleep_time = 40
  /\ wire[2].retry_after = NoHeader /\ slept[2].sleep_time = 14

\* C9: within one call the computed delays of the 429 responses that carry no
\* Retry-After never decrease from one attempt to a later one.
C9_DelaysNonDecreasing ==
  pc = "gd_loop" =>
    \A i, j \in 1..Len(slept) :
      (i < j /\ wire[i].retry_after = NoHeader /\ wire[j].retry_after = NoHeader)
        => slept[i].retry_after <= slept[j].retry_after

\* C9 witness: five 429 responses without Retry-After in one call, the fifth
\* delay being 128.
C9_Witness ==
  /\ pc = "gd_loop" /\ Hintless(wire) /\ Len(slept) = 5
  /\ slept[4].retry_after = 64 /\ slept[5].retry_after = 128

\* C10 (as claimed): a traversal of N pages, cursor style or page-number
\* style, has slept N - 1 times between its pages when it ends.
C10_PacingBothTraversals ==
  (pc = "done" /\ ncalls >= 1) =>
     /\ Len(pacing) = ncalls - 1
     /\ \A i \in 1..Len(pacing) : pacing[i] = 1

\* C10 (amended): paginated_get sleeps 1 second after every page but the
\* last, whatever get_data slept for: when it asks for page k it has slept
\* k - 1 times, and it returns without a further sleep.  get_file_list never
\* sleeps between its pages.
C10_PacingCursorOnly ==
  /\ \A i \in 1..Len(pacing) : pacing[i] = 1
  /\ op = "paginated_get" =>
       Len(pacing) = (IF pc = "pg_loop" THEN ncalls ELSE ncalls - 1)
  /\ op # "paginated_get" => pacing = << >>

\* C10 witness: a cursor traversal of three pages has returned after two
\* pacing sleeps, its last page having been rate-limited first.
C10_Witness ==
  /\ op = "paginated_get" /\ pc = "done" /\ ncalls = 3 /\ Len(served) = 3
  /\ pacing = <<1, 1>> /\ return_sleep = 1

\* ---------------------------------------------------------------- C11
\* The files of the responses the server gave, in the order it gave them.
RECURSIVE FilesOf(_)
FilesOf(sv) ==
  IF sv = << >> THEN << >>
  ELSE FilesOf(SubSeq(sv, 1, Len(sv) - 1)) \o sv[Len(sv)].resp.body.files

FetchingThread == pc \in {"pg_loop", "gd_loop", "gd_returned", "pg_combine", "done"}

\* C12: channel_replies fetches the threads one after the other: while thread
\* i is fetched every request carries its timestamp, the entries of threads
\* 1..i-1 are in the list and i-1 one-second sleeps have elapsed; the entry
\* appended for a thread is its complete traversal; the list returned has one
\* entry per timestamp, in input order, and no sleep follows the last thread.
C12_ThreadsSerial ==
  /\ [](op = "channel_replies" =>
         /\ FetchingThread =>
              /\ thread_index \in 1..Len(timestamps)
              /\ params.ts = timestamps[thread_index]
              /\ Len(replies) = thread_index - 1
              /\ Len(thread_pacing) = thread_index - 1
         /\ pc = "done" =>
              /\ ret = ItemsOf(served)
              /\ ncalls = Len(served)
              /\ Blank(served[Len(served)].resp.body.next_cursor)
         /\ pc = "cr_done" =>
              /\ ret = replies
              /\ Len(ret) = Len(timestamps)
              /\ Len(thread_pacing) = IF timestamps = << >> THEN 0
                                                             ELSE Len(timestamps) - 1
         /\ \A k \in 1..Len(thread_pacing) : thread_pacing[k] = 1)
  /\ [][(op = "channel_replies" /\ replies' # replies)
          => (pc = "done" /\ replies' = Append(replies, ItemsOf(served)))]_vars

\* C12 witness: two threads were fetched, the first in two pages and the
\* second empty, with one sleep between them.
C12_Witness ==
  /\ op = "channel_replies" /\ pc = "cr_done"
  /\ Len(ret) = 2 /\ Len(ret[1]) = 4 /\ ret[2] = << >>
  /\ thread_pacing = <<1>>

\* ---------------------------------------------------------------- C13
\* A line without the tab of an indented block.
Unindent(line) == IF line # << >> /\ line[1] = "\t" THEN Tail(line) ELSE line

\* The lines of a block.
BlockLines(entry) ==
  LET lines == Split(entry) IN [k \in 1..Len(lines) |-> Unindent(lines[k])]

\* What the sender line of a block shows: a bot, an unknown sender or a user.
ShownAs(entry) ==
  LET sender == BlockLines(entry)[2]
  IN  IF sender[1] = "Bot: " THEN "bot"
      ELSE IF sender[2] = "Unknown" THEN "unknown"
      ELSE "user"

\* C13 as stated: a record with a user field is rendered as a user message;
\* one without user but with bot_id, username or subtype bot_message as a bot
\* message; every other record as an unknown message.
C13_ClassificationBySubtype ==
  \A k \in 1..Len(blocks) :
    LET m == blocks[k].msg
    IN  ShownAs(blocks[k].entry) =
          IF "user" \in m.keys THEN "user"
          ELSE IF \/ "bot_id" \in m.keys \/ "username" \in m.keys
                  \/ ("subtype" \in m.keys /\ m.subtype = "bot_message")
                 THEN "bot"
          ELSE "unknown"

\* ---------------------------------------------------------------- C14
\* C14 as stated: the name on the sender line of a bot message is the
\* username when the record has one, else "Bot " followed by the bot_id when
\* it has one, else "Bot".
C14_BotNamePriority ==
  \A k \in 1..Len(blocks) :
    LET m == blocks[k].msg
    IN  ShownAs(blocks[k].entry) = "bot" =>
          Tail(BlockLines(blocks[k].entry)[2]) =
            IF "username" \in m.keys THEN <<m.username>>
            ELSE IF "bot_id" \in m.keys THEN <<"Bot ", m.bot_id>>
            ELSE <<"Bot">>

\* ---------------------------------------------------------------- C15
\* sub occurs in s.
Contains(s, sub) ==
  \E n \in 0..(Len(s) - Len(sub)) : SubSeq(s, n + 1, n + Len(sub)) = sub

Placeholder == <<"[no message content]">>

\* An attachment that has nothing to show: no title, no field, and no text
\* or a blank one.
NoContent(att) ==
  /\ "title" \notin att.keys
  /\ "fields" \in att.keys => att.fields = << >>
  /\ "text" \in att.keys => IsBlank(att.text)

\* The 'label: value' line of a field.
FieldLine(field) ==
  (IF "title" \in field.keys THEN field.title ELSE << >>) \o <<": ">>
  \o (IF "value" \in field.keys THEN field.value ELSE << >>)

Count(s, sub) ==
  Cardinality({ n \in 0..(Len(s) - Len(sub)) : SubSeq(s, n + 1, n + Len(sub)) = sub })

KnownIds(users) == { users[k].id : k \in 1..Len(users) }

\* The mention of u with the short name of u's record.
Annotated(u, users) ==
  Mention(u)
  \o <<" (", (CHOOSE x \in { users[k] : k \in 1..Len(users) } : x.id = u).name, ")">>

\* The mentions in text of users that have a record.
KnownMentions(text, users) ==
  { n \in 1..(Len(text) - 2) :
      text[n] = "<@" /\ text[n + 1] \in KnownIds(users) /\ text[n + 2] = ">" }

FileLine(f) ==
  IF "name" \in f.keys /\ "url_private_download" \in f.keys
    THEN <<" - [", f.id, "] ", f.name, ", ", f.url_private_download>>
    ELSE <<" - [", f.id, "] ", "[deleted, oversize, or unavailable file]">>

\* C17 as stated: the block of a record with N files has exactly N file
\* lines, one line of its own for every file, whether the file has its name
\* and download URL or lacks one of them.
C17_EveryFileOwnLine ==
  \A k \in 1..Len(blocks) :
    LET m == blocks[k].msg
        lines == BlockLines(blocks[k].entry)
        file_lines == { n \in 1..Len(lines) : lines[n] # << >> /\ lines[n][1] = " - [" }
    IN  "files" \in m.keys =>
          /\ Cardinality(file_lines) = Len(m.files)
          /\ \A j \in 1..Len(m.files) :
               \E n \in file_lines : lines[n] = FileLine(m.files[j])

\* ---------------------------------------------------------------- C18
\* The message list the running call of parse_channel_history was given.
GivenMsgs ==
  IF thread_no > 0 THEN task.threads[thread_no] ELSE task.msgs

\* The places of the records of type "message" in a list, and the k-th of them.
MessagePlaces(msgs) == { n \in 1..Len(msgs) : msgs[n].type = "message" }

NthMessage(msgs, k) ==
  msgs[CHOOSE n \in MessagePlaces(msgs) :
         Cardinality({ j \in MessagePlaces(msgs) : j < n }) = k - 1]

RECURSIVE ConcatEntries(_)
ConcatEntries(bs) ==
  IF bs = << >> THEN << >>
  ELSE ConcatEntries(SubSeq(bs, 1, Len(bs) - 1)) \o bs[Len(bs)].entry

IsHeaderLine(line) == line # << >> /\ line[1] = "Message at "

IsSeparatorLine(line) == line = <<Stars>>

\* C18: the body of parse_channel_history is the blocks of the records of
\* type "message" of its list, one per record and in the order of the list
\* (the timestamps it shows are those of the records, in list order); every
\* block ends with the line of 24 asterisks; and the body that is returned
\* has as many such lines as the list has records of type "message".
C18_TranscriptInOrder ==
  (pc = "pch_loop" \/ (pc = "returned" /\ task.fn = "parse_channel_history")) =>
    LET msgs == GivenMsgs
        lines == BlockLines(body)
        headers == SelectSeq(lines, IsHeaderLine)
    IN  /\ rendered <= Cardinality(MessagePlaces(msgs))
        /\ Len(blocks) = rendered
        /\ body = ConcatEntries(blocks)
        /\ Len(headers) = rendered
        /\ \A k \in 1..rendered :
             /\ blocks[k].msg = NthMessage(msgs, k)
             /\ headers[k] = <<"Message at ", FormatTimestamp(NthMessage(msgs, k).ts)>>
             /\ LET block == BlockLines(blocks[k].entry)
                IN  /\ Len(block) >= 3
                    /\ IsSeparatorLine(block[Len(block) - 2])
                    /\ block[Len(block) - 1] = << >> /\ block[Len(block)] = << >>
        /\ Len(SelectSeq(lines, IsSeparatorLine)) = rendered
        /\ pc = "returned" =>
             /\ ret = body
             /\ rendered = Cardinality(MessagePlaces(msgs))

\* C18 witness: a transcript of two records was returned, the later message
\* first and a message with files second.
C18_Witness ==
  /\ pc = "returned" /\ task.fn = "parse_channel_history"
  /\ Len(task.msgs) = 2 /\ rendered = 2
  /\ task.msgs[1].ts = "1609459260.600200" /\ task.msgs[2].ts = "1609459200.000100"
  /\ "files" \in task.msgs[2].keys

\* ---------------------------------------------------------------- C19
EndsWithTab(s) == s # << >> /\ s[Len(s)] = "\t"

\* C19: a block is indented exactly when it is rendered in thread context
\* and its record has parent_user_id: then every line of the block, the
\* separator line too, begins with one tab; otherwise no line of the block
\* begins with a tab.  The body never ends with a tab, nor does the body of
\* parse_replies.
C19_IndentedIffReply ==
  /\ \A k \in 1..Len(blocks) :
       LET m == blocks[k].msg
           lines == Split(blocks[k].entry)
           n == Len(lines)
       IN  /\ n >= 4 /\ lines[n] = << >>
           /\ IF check_thread /\ "parent_user_id" \in m.keys
                THEN /\ \A j \in 1..(n - 1) :
                          /\ lines[j] # << >> /\ lines[j][1] = "\t"
                          /\ Len(lines[j]) >= 2 => lines[j][2] # "\t"
                     /\ lines[n - 2] = <<"\t", Stars>>
                ELSE /\ \A j \in 1..n : lines[j] = << >> \/ lines[j][1] # "\t"
                     /\ lines[n - 2] = <<Stars>>
  /\ ~EndsWithTab(body)
  /\ ~EndsWithTab(replies_body)

\* C19 witness: in a thread the parent, a record with two files and without
\* parent_user_id, was rendered unindented and the reply after it indented.
C19_Witness ==
  /\ pc = "pch_loop" /\ check_thread /\ Len(blocks) = 2
  /\ "parent_user_id" \notin blocks[1].msg.keys
  /\ "files" \in blocks[1].msg.keys /\ Len(blocks[1].msg.files) = 2
  /\ blocks[1].entry[1] = "Message at "
  /\ "parent_user_id" \in blocks[2].msg.keys
  /\ blocks[2].entry[1] = "\t"
  /\ body = blocks[1].entry \o blocks[2].entry

\* ---------------------------------------------------------------- C20
\* The first record of users with the identifier, when there is one.
RecordOf(user_id, users) ==
  users[CHOOSE k \in 1..Len(users) :
          /\ users[k].id = user_id
          /\ \A j \in 1..(k - 1) : users[j].id # user_id]

C22_PacingSleepIffRetried ==
  [][(pc = "gd_loop" /\ pc' = "gd_returned") =>
       /\ All429(wire) /\ Len(wire) = attempt /\ Len(slept) = attempt
       /\ return_sleep' \in {0, 1}
       /\ (return_sleep' = 1 <=> attempt >= 1)
       /\ (attempt = 0 => return_sleep' = 0 /\ slept = << >>)]_vars

\* C22 witness: a 200 response has been returned after a rate-limited attempt,
\* with the pacing sleep.
C22_Witness == pc = "gd_returned" /\ return_sleep = 1 /\ r.status = 200

\* C23: the backoff state is local to one get_data call.  Every call starts
\* with attempt 0, base delay 1 and no sleeps, whatever earlier calls met; the
\* first 429 of a call that carries no Retry-After is followed by a sleep of
\* 1 + ADDITIONAL_SLEEP_TIME; while a call runs its request is not changed,
\* and between calls nothing touches the backoff locals.
C23_BackoffLocalToCall ==
  /\ [][(pc # "gd_loop" /\ pc' = "gd_loop") =>
          /\ attempt' = 0 /\ base_sleep' = 1 /\ success' = FALSE
          /\ wire' = << >> /\ slept' = << >>]_vars
  /\ [][(pc = "gd_loop" /\ attempt = 0 /\ r'.status = 429
          /\ r'.retry_after = NoHeader) =>
          slept' = <<[retry_after |-> 1, sleep_time |-> 1 + ADDITIONAL_SLEEP_TIME]>>]_vars
  /\ [][pc = "gd_loop" => params' = params /\ ADDITIONAL_SLEEP_TIME' = ADDITIONAL_SLEEP_TIME]_vars
  /\ [][(pc # "gd_loop" /\ pc' # "gd_loop") => UNCHANGED <<attempt, base_sleep>>]_vars

\* C23 witness: a call made after a rate-limited call has slept once, for its
\* first 429, which had no Retry-After: the computed delay is again 1.
C23_Witness ==
  /\ pc = "gd_loop" /\ limited_before /\ ncalls >= 2
  /\ Len(slept) = 1 /\ wire[1].retry_after = NoHeader
  /\ slept[1].sleep_time = 1 + ADDITIONAL_SLEEP_TIME

\* A page served with status 200 whose body has no "ok" key.
OkAbsentPage(p) == p.resp.status = 200 /\ p.resp.body.ok = "absent"

\* C24 (as claimed): a 200 response whose body lacks "ok" never lets a cursor
\* traversal return a result, whatever the combine key: once such a page has
\* been served the traversal does not reach its return, and what it gathered
\* from earlier pages is not handed back.
C24_OkAbsentNeverReturns ==
  (op = "paginated_get" /\ \E k \in 1..Len(served) : OkAbsentPage(served[k])) =>
     (pc # "done" /\ signal # "return" /\ ret = << >>)

\* The download attempts save_files has made for the file in hand.
AttemptsMade == sf_attempt - 1

\* C21 as stated: a file whose download attempts all fail is skipped; it never
\* ends the download run.
C21_FailedFileSkipped ==
  consumer = "save_files" =>
    (AttemptsMade <= MaxDownloadAttempts /\ signal # "Exception")

\* C21 amended: save_files tries each file at most 10 times, one attempt
\* after the other and only while none has succeeded; a file is counted only
\* when an attempt succeeded; when the tenth attempt has failed save_files
\* raises, the run ends there with exit status 1 and the files after the
\* failed one are never attempted.
C21_FailedFileAborts ==
  /\ [](consumer = "save_files" =>
          /\ AttemptsMade \in 0..MaxDownloadAttempts
          /\ total = file_index /\ file_index <= Len(ret))
  /\ [][sf_attempt' > sf_attempt =>
          /\ sf_attempt' = sf_attempt + 1 /\ ~download_success
          /\ file_index < Len(ret) /\ UNCHANGED <<file_index, total>>]_vars
  /\ [][total' > total =>
          /\ download_success /\ total' = total + 1
          /\ file_index' = file_index + 1]_vars
  /\ [][(signal' = "Exception" /\ signal # "Exception") =>
          /\ AttemptsMade = MaxDownloadAttempts /\ ~download_success
          /\ pc' = "exit" /\ exit_code' = 1
          /\ printed'[Len(printed')] = "Error during export"
          /\ UNCHANGED <<file_index, total, ret, sf_attempt>>]_vars
  /\ [][pc # "exit"]_vars

\* C21 witness: the second file of the inventory failed ten times and ended
\* the run while a third file was waiting.
C21_Witness ==
  /\ consumer = "save_files" /\ pc = "exit" /\ signal = "Exception"
  /\ AttemptsMade = MaxDownloadAttempts
  /\ total = 1 /\ Len(ret) >= 3

C25_HeaderNeverFails ==
  task.fn \in {"save_channel", "save_replies"} =>
    (signal # "ValueError" /\ exit_code = -1)

====
